---------------------------- MODULE Spec2Model ----------------------------
(***************************************************************************)
(* A model of src/app.py: the Streamlit front end that extracts the text   *)
(* of an uploaded PDF (remote OCR, local PyPDF2 fallback), posts it to the *)
(* roadmap service, renders the answer and offers it as a PDF report.      *)
(*                                                                         *)
(* Python strings are sequences of one-character strings.  A string        *)
(* literal of the source that the program only ever emits (a heading, a    *)
(* list-item prefix) is a single token of the output sequence.             *)
(***************************************************************************)
EXTENDS Integers, Sequences, FiniteSets, TLC

VARIABLES
    secrets,         \* st.secrets: the set of configured secret names
    uploaded_file,   \* the file-uploader widget's value (kept across reruns)
    clicked,         \* st.button("Generate") returns True in this script run
    pc,              \* position of the current script run
    extracted_text,  \* module variable extracted_text of the current run
    ocr_response,    \* what the OCR service answered in the current run
    api_response,    \* what the roadmap service answered in the current run
    result,          \* module variable result of the current run
    response,        \* module variable response (the Markdown report)
    pdf_output,      \* module variable pdf_output (the report's PDF bytes)
    ui,              \* elements the current run has put on the page, in order
    requests_log     \* HTTP requests the current run has issued, in order

vars == <<secrets, uploaded_file, clicked, pc, extracted_text, ocr_response,
          api_response, result, response, pdf_output, ui, requests_log>>

---------------------------------------------------------------------------
(* Bounds *)

\* longest page text / OCR text enumerated over Alphabet
MaxLen == 2
\* most pieces a questionnaire string of the formatter's inputs is built from
MaxPieces == 6

---------------------------------------------------------------------------
(* Python string operations *)

\* characters str.split() and str.strip() treat as whitespace
Whitespace == {" ", "\n", "\t"}

Alphabet == {"A", " ", "\n", "\t"}

RECURSIVE StringsUpTo(_, _)
StringsUpTo(S, n) ==
    IF n = 0 THEN {<<>>}
    ELSE LET shorter == StringsUpTo(S, n - 1)
         IN  shorter \cup {Append(s, c) : s \in shorter, c \in S}

RECURSIVE SplitWsFrom(_, _, _)
SplitWsFrom(s, i, cur) ==
    LET done == IF cur = <<>> THEN <<>> ELSE <<cur>>
    IN  IF i > Len(s) THEN done
        ELSE IF s[i] \in Whitespace THEN done \o SplitWsFrom(s, i + 1, <<>>)
        ELSE SplitWsFrom(s, i + 1, Append(cur, s[i]))

\* s.split(): the maximal runs of non-whitespace characters, in order
SplitWs(s) == SplitWsFrom(s, 1, <<>>)

RECURSIVE SplitOnFrom(_, _, _, _)
SplitOnFrom(s, d, i, cur) ==
    IF i > Len(s) THEN <<cur>>
    ELSE IF i + Len(d) - 1 <= Len(s) /\ SubSeq(s, i, i + Len(d) - 1) = d
         THEN <<cur>> \o SplitOnFrom(s, d, i + Len(d), <<>>)
         ELSE SplitOnFrom(s, d, i + 1, Append(cur, s[i]))

\* s.split(d) with a non-empty separator d
SplitOn(s, d) == SplitOnFrom(s, d, 1, <<>>)

RECURSIVE Join(_, _)
\* sep.join(parts)
Join(parts, sep) ==
    IF parts = <<>> THEN <<>>
    ELSE IF Len(parts) = 1 THEN parts[1]
    ELSE parts[1] \o sep \o Join(Tail(parts), sep)

RECURSIVE LStrip(_)
LStrip(s) ==
    IF s # <<>> /\ s[1] \in Whitespace THEN LStrip(Tail(s)) ELSE s

RECURSIVE RStrip(_)
RStrip(s) ==
    IF s # <<>> /\ s[Len(s)] \in Whitespace
    THEN RStrip(SubSeq(s, 1, Len(s) - 1)) ELSE s

\* s.strip()
Strip(s) == RStrip(LStrip(s))

\* SingleLine with only the line breaks collapsed
SingleLine_linesonly(text) == Join(SplitOn(text, <<"\n">>), <<" ">>)

\* " ".join(text.split())
SingleLine(text) == Join(SplitWs(text), <<" ">>)

RECURSIVE Concat(_)
Concat(parts) ==
    IF parts = <<>> THEN <<>> ELSE parts[1] \o Concat(Tail(parts))

---------------------------------------------------------------------------
(* Values *)

\* a page element: (st call, message, status code or 0)
El(kind, text) == <<kind, text, 0>>

\* what a Python call did: the exception flag, the return value, the page
\* elements it emitted and the HTTP requests it issued
Outcome(exc, ret, els, reqs) ==
    [exc |-> exc, ret |-> ret, ui |-> els, reqs |-> reqs]

None == [kind |-> "None", v |-> <<>>]
Str(s) == [kind |-> "str", v |-> s]
Dict(d) == [kind |-> "dict", v |-> d]
Unset == [kind |-> "unset", v |-> <<>>]
\* the PDF that MarkdownPdf makes of one Markdown section
Pdf(md) == [kind |-> "pdf", v |-> md]

Get(d, k, default) == IF k \in DOMAIN d THEN d[k] ELSE default


\* a dict with no key
EmptyDict == [k \in {} |-> None]

---------------------------------------------------------------------------
(* The environment: uploaded documents and the two remote services *)

\* st.file_uploader's value: None, or a PDF that PyPDF2 reads (parse_ok) as
\* pages of text, or fails on
NoFile == [present |-> FALSE, parse_ok |-> FALSE, pages |-> <<>>]
PdfFile(parse_ok, pages) ==
    [present |-> TRUE, parse_ok |-> parse_ok, pages |-> pages]

\* the scenario of the specification: the pages read "A B  C"
ScenarioText == <<"A", " ", "B", " ", " ", "C">>
ScenarioLine == <<"A", " ", "B", " ", "C">>

Texts == StringsUpTo(Alphabet, MaxLen)
            \cup {ScenarioText, <<"\t", "A", " ", "\n", "B", "\n">>}

Documents ==
    {PdfFile(TRUE, <<t>>) : t \in Texts}
        \cup {PdfFile(TRUE, <<>>),
              PdfFile(TRUE, <<SubSeq(ScenarioText, 1, 4),
                              SubSeq(ScenarioText, 5, 6)>>),
              PdfFile(FALSE, <<>>)}

\* what requests.post(...) and response.json() do: raise (transport), or
\* answer with a status and a body that is a JSON object or not JSON at all
HttpError == [raises |-> TRUE, status |-> 0, json_ok |-> FALSE,
              body |-> EmptyDict]
HttpResponse(status, json_ok, body) ==
    [raises |-> FALSE, status |-> status, json_ok |-> json_ok, body |-> body]

\* no request was answered yet
NoResponse == [raises |-> FALSE, status |-> -1, json_ok |-> FALSE,
               body |-> EmptyDict]

OcrStatuses == {200, 403, 500}

OcrBodies ==
    {EmptyDict, [text |-> None]} \cup {[text |-> Str(t)] : t \in Texts}

OcrResponses ==
    {HttpError}
        \cup {HttpResponse(200, TRUE, b) : b \in OcrBodies}
        \cup {HttpResponse(s, FALSE, EmptyDict) : s \in OcrStatuses}
        \cup {HttpResponse(s, TRUE, [text |-> Str(ScenarioText)]) :
                 s \in OcrStatuses \ {200}}

RoadmapKeys == {"questionnaire", "job_roles", "noc_codes", "crs_score",
                "roadmap"}

BulletDelim == <<"U+00E2", "U+2014">>

SampleValue(k) ==
    CASE k = "questionnaire" ->
            BulletDelim \o <<" ", "Q">> \o BulletDelim \o <<"A", " ">>
      [] k = "job_roles" -> <<"J">>
      [] k = "noc_codes" -> << <<" ", "1">>, <<"2">> >>
      [] k = "crs_score" -> <<"4", "0", "0">>
      [] k = "roadmap" -> <<"R", "\n", "M">>

RoadmapBodies == {[k \in K |-> SampleValue(k)] : K \in SUBSET RoadmapKeys}

RoadmapStatuses == {200, 400, 404, 500}

RoadmapResponses ==
    {HttpError}
        \cup {HttpResponse(200, TRUE, b) : b \in RoadmapBodies}
        \cup {HttpResponse(s, FALSE, EmptyDict) : s \in RoadmapStatuses}
        \cup {HttpResponse(s, TRUE, [k \in RoadmapKeys |-> SampleValue(k)]) :
                 s \in RoadmapStatuses \ {200}}

---------------------------------------------------------------------------
(* extract_text_from_pdf and fallback_extract_text *)

\* the body of fallback_extract_text's try block
fallback_try(pdf_file) ==
    IF pdf_file.parse_ok
    THEN Outcome(FALSE, Strip(SingleLine(Concat(pdf_file.pages))), <<>>, <<>>)
    ELSE Outcome(TRUE, <<>>, <<>>, <<>>)

\* fallback_extract_text without its except clause
fallback_nocatch(pdf_file) == fallback_try(pdf_file)

fallback_extract_text(pdf_file) ==
    LET t == fallback_try(pdf_file)
    IN  IF t.exc
        THEN Outcome(FALSE, <<>>,
                     t.ui \o <<El("error", "Error in text extraction")>>,
                     t.reqs)
        ELSE t

OcrRequest(pdf_file) == [url |-> "ocr", payload |-> [pdf |-> pdf_file.pages]]

\* the body of extract_text_from_pdf's try block
extract_try(pdf_file, ocr) ==
    LET req == <<OcrRequest(pdf_file)>>
        raised == Outcome(TRUE, <<>>, <<>>, req)
    IN  IF ocr.raises THEN raised
        ELSE IF ocr.status = 200
        THEN IF ~ocr.json_ok THEN raised
             ELSE LET extracted == Get(ocr.body, "text", Str(<<>>))
                  IN  IF extracted.kind # "str" THEN raised
                      ELSE Outcome(FALSE, SingleLine(extracted.v), <<>>, req)
        ELSE LET f == fallback_extract_text(pdf_file)
             IN  Outcome(f.exc, f.ret, f.ui, req \o f.reqs)

extract_text_from_pdf(pdf_file, ocr) ==
    IF "RAPIDAPI_KEY" \notin secrets
    THEN Outcome(TRUE, <<>>, <<>>, <<>>)
    ELSE LET t == extract_try(pdf_file, ocr)
         IN  IF t.exc
             THEN LET f == fallback_extract_text(pdf_file)
                  IN  Outcome(f.exc, f.ret,
                              t.ui \o <<El("warning",
                                           "Using fallback PDF extraction method")>>
                                   \o f.ui,
                              t.reqs \o f.reqs)
             ELSE t

---------------------------------------------------------------------------
(* call_visa_roadmap_api *)

\* RoadmapRequest sending the previewed text
RoadmapRequest_preview(text) ==
    [url |-> "roadmap",
     payload |-> [questionnaire |-> text \o <<".", ".", ".">>]]

RoadmapRequest(text) ==
    [url |-> "roadmap", payload |-> [questionnaire |-> text]]

\* call_try with `if` for `elif`: a 404 also reaches the generic branch
call_try_both(text, api) ==
    LET req == <<[url |-> "roadmap", payload |-> [questionnaire |-> text]]>>
    IN  IF api.raises THEN Outcome(TRUE, None, <<>>, req)
        ELSE IF api.status = 200
        THEN IF api.json_ok THEN Outcome(FALSE, Dict(api.body), <<>>, req)
             ELSE Outcome(TRUE, None, <<>>, req)
        ELSE Outcome(FALSE, None,
                     (IF api.status = 404
                      THEN << <<"error", "API Error: Data Not Found",
                                api.status>> >>
                      ELSE <<>>)
                        \o << <<"error", "API Error", api.status>> >>,
                     req)

\* the body of call_visa_roadmap_api's try block; the 404 branch has no
\* return statement and falls off the end of the function
call_try(text, api) ==
    LET req == <<RoadmapRequest(text)>>
    IN  IF api.raises THEN Outcome(TRUE, None, <<>>, req)
        ELSE IF api.status = 200
        THEN IF api.json_ok THEN Outcome(FALSE, Dict(api.body), <<>>, req)
             ELSE Outcome(TRUE, None, <<>>, req)
        ELSE IF api.status = 404
        THEN Outcome(FALSE, None,
                     << <<"error", "API Error: Data Not Found", api.status>> >>,
                     req)
        ELSE Outcome(FALSE, None,
                     << <<"error", "API Error", api.status>> >>, req)

call_visa_roadmap_api(text, api) ==
    LET t == call_try(text, api)
    IN  IF t.exc
        THEN Outcome(FALSE, None,
                     t.ui \o <<El("error", "API Error: exception")>>, t.reqs)
        ELSE t

---------------------------------------------------------------------------
(* convert_dict_to_markdown *)

Title == "# Immigration Profile Report"
H1 == "## 1. Questionnaire and Response:"
H2 == "## 2. Job Roles Based on Education and Work Experience:"
H3 == "## 3. NOC Codes:"
H4 == "## 4. CRS Score Breakdown:"
H5 == "## 5. Roadmap for Canada Immigration:"
ItemPrefix == "- "

\* f"- {line.strip()}\n"
Item(line) == <<ItemPrefix>> \o Strip(line) \o <<"\n">>

RECURSIVE QuestionnaireItems_noskip(_)
\* QuestionnaireItems without the test for blank lines
QuestionnaireItems_noskip(lines) ==
    IF lines = <<>> THEN <<>>
    ELSE <<Item(lines[1])>> \o QuestionnaireItems_noskip(Tail(lines))

RECURSIVE QuestionnaireItems(_)
\* the loop over questionnaire.split(delimiter), which skips blank lines
QuestionnaireItems(lines) ==
    IF lines = <<>> THEN <<>>
    ELSE (IF Strip(lines[1]) # <<>> THEN <<Item(lines[1])>> ELSE <<>>)
            \o QuestionnaireItems(Tail(lines))

\* the loop over noc_codes
NocItems(nocs) == [i \in 1..Len(nocs) |-> Item(nocs[i])]

\* markdown_content with the NOC heading inside the test for a non-empty list
markdown_content_skipempty(data) ==
    << <<Title, "\n">>, <<H1, "\n">> >>
        \o QuestionnaireItems(SplitOn(Get(data, "questionnaire", <<>>),
                                      BulletDelim))
        \o << <<H2, "\n">>, Get(data, "job_roles", <<>>) \o <<"\n">> >>
        \o (IF Get(data, "noc_codes", <<>>) = <<>> THEN <<>>
            ELSE << <<H3, "\n">> >> \o NocItems(Get(data, "noc_codes", <<>>)))
        \o << <<H4, "\n">>, Get(data, "crs_score", <<>>) \o <<"\n">>,
              <<H5, "\n">>, Get(data, "roadmap", <<>>) \o <<"\n">> >>

\* the list markdown_content when the function returns
markdown_content(data) ==
    << <<Title, "\n">>, <<H1, "\n">> >>
        \o QuestionnaireItems(SplitOn(Get(data, "questionnaire", <<>>),
                                      BulletDelim))
        \o << <<H2, "\n">>, Get(data, "job_roles", <<>>) \o <<"\n">>,
              <<H3, "\n">> >>
        \o NocItems(Get(data, "noc_codes", <<>>))
        \o << <<H4, "\n">>, Get(data, "crs_score", <<>>) \o <<"\n">>,
              <<H5, "\n">>, Get(data, "roadmap", <<>>) \o <<"\n">> >>

convert_dict_to_markdown(data) == Join(markdown_content(data), <<"\n">>)

---------------------------------------------------------------------------
(* The script: one run from top to bottom per user interaction *)

Init ==
    /\ secrets \in {{}, {"RAPIDAPI_KEY"}}
    /\ uploaded_file = NoFile
    /\ clicked = FALSE
    /\ pc = "start"
    /\ extracted_text = Unset
    /\ ocr_response = NoResponse
    /\ api_response = NoResponse
    /\ result = Unset
    /\ response = Unset
    /\ pdf_output = Unset
    /\ ui = <<>>
    /\ requests_log = <<>>

\* Startup without st.stop()
Startup_nostop ==
    /\ pc = "start"
    /\ ui' = ui \o <<El("title", "Immigration Assessment Assistant")>>
                \o (IF "RAPIDAPI_KEY" \notin secrets
                    THEN <<El("error", "Please configure your RapidAPI key")>>
                    ELSE <<>>)
    /\ pc' = "upload"
    /\ UNCHANGED <<secrets, uploaded_file, clicked, extracted_text,
                   ocr_response, api_response, result, response, pdf_output,
                   requests_log>>

\* set_page_config, title and the check of the RapidAPI key; st.stop() ends
\* the run
Startup ==
    /\ pc = "start"
    /\ IF "RAPIDAPI_KEY" \notin secrets
       THEN /\ ui' = ui \o <<El("title", "Immigration Assessment Assistant"),
                             El("error", "Please configure your RapidAPI key")>>
            /\ pc' = "stopped"
       ELSE /\ ui' = ui \o <<El("title", "Immigration Assessment Assistant")>>
            /\ pc' = "upload"
    /\ UNCHANGED <<secrets, uploaded_file, clicked, extracted_text,
                   ocr_response, api_response, result, response, pdf_output,
                   requests_log>>

\* the file uploader and, with a file, the extraction and its preview
UploadSection ==
    /\ pc = "upload"
    /\ IF uploaded_file.present
       THEN \E ocr \in OcrResponses :
              LET o == extract_text_from_pdf(uploaded_file, ocr)
                  shown == ui \o <<El("file_uploader", "pdf")>> \o o.ui
              IN  /\ requests_log' = requests_log \o o.reqs
                  /\ ocr_response' = IF o.reqs = <<>> THEN NoResponse ELSE ocr
                  /\ IF o.exc
                     THEN /\ ui' = shown \o <<El("exception", "KeyError")>>
                          /\ extracted_text' = extracted_text
                          /\ pc' = "raised"
                     ELSE /\ ui' = shown \o
                                (IF o.ret # <<>>
                                 THEN <<El("success",
                                           "PDF text extracted successfully!"),
                                        El("expander",
                                           "Preview extracted text")>>
                                 ELSE <<>>)
                          /\ extracted_text' = Str(o.ret)
                          /\ pc' = "generate"
       ELSE /\ ui' = ui \o <<El("file_uploader", "pdf")>>
            /\ pc' = "sidebar"
            /\ UNCHANGED <<requests_log, ocr_response, extracted_text>>
    /\ UNCHANGED <<secrets, uploaded_file, clicked, api_response, result,
                   response, pdf_output>>

\* the handler without its `if result:` test
Truthy_always(r) == TRUE

\* `if result:`
Truthy(r) == r.kind = "dict" /\ DOMAIN r.v # {}

\* the keys the result panels subscript, in the order they do
PanelKeys == <<"roadmap", "crs_score", "job_roles", "noc_codes">>
PanelLabels == <<"Roadmap", "CRS Score Details", "Eligible Job Roles",
                 "NOC Codes">>

\* what one expander holds: st.markdown of the field, or of every NOC code
\* followed by a rule
PanelBody(d, key) ==
    IF key = "noc_codes"
    THEN Concat([i \in 1..Len(d[key]) |->
                    <<El("markdown", "noc"), El("markdown", "---")>>])
    ELSE <<El("markdown", key)>>

RECURSIVE Panels(_, _)
\* the four expanders from the i-th on: result[key] raises KeyError inside the
\* expander when the key is missing
Panels(d, i) ==
    IF i > Len(PanelKeys) THEN Outcome(FALSE, None, <<>>, <<>>)
    ELSE IF PanelKeys[i] \notin DOMAIN d
         THEN Outcome(TRUE, None, <<El("expander", PanelLabels[i])>>, <<>>)
         ELSE LET rest == Panels(d, i + 1)
              IN  Outcome(rest.exc, None,
                          <<El("expander", PanelLabels[i])>>
                              \o PanelBody(d, PanelKeys[i]) \o rest.ui,
                          <<>>)

\* the block under `if result:`
Render(d) ==
    LET p == Panels(d, 1)
        head == <<El("subheader", "Your Immigration Roadmap")>>
    IN  IF p.exc
        THEN [exc |-> TRUE, ui |-> head \o p.ui, response |-> Unset,
              pdf_output |-> Unset]
        ELSE [exc |-> FALSE,
              ui |-> head \o p.ui
                        \o <<El("download_button",
                                "immigration_assessment.pdf")>>,
              response |-> Str(convert_dict_to_markdown(d)),
              pdf_output |-> Pdf(convert_dict_to_markdown(d))]

\* the Generate button and, when it was pressed, its handler
GenerateHandler ==
    /\ pc = "generate"
    /\ IF clicked
       THEN \E api \in RoadmapResponses :
              LET o == call_visa_roadmap_api(extracted_text.v, api)
                  shown == ui \o <<El("button", "Generate")>> \o o.ui
              IN  /\ requests_log' = requests_log \o o.reqs
                  /\ api_response' = api
                  /\ result' = o.ret
                  /\ IF Truthy(o.ret)
                     THEN LET r == Render(o.ret.v)
                          IN  /\ response' = r.response
                              /\ pdf_output' = r.pdf_output
                              /\ IF r.exc
                                 THEN /\ ui' = shown \o r.ui \o
                                              <<El("exception", "KeyError")>>
                                      /\ pc' = "raised"
                                 ELSE /\ ui' = shown \o r.ui
                                      /\ pc' = "sidebar"
                     ELSE /\ ui' = shown
                          /\ pc' = "sidebar"
                          /\ UNCHANGED <<response, pdf_output>>
       ELSE /\ ui' = ui \o <<El("button", "Generate")>>
            /\ pc' = "sidebar"
            /\ UNCHANGED <<requests_log, api_response, result, response,
                           pdf_output>>
    /\ UNCHANGED <<secrets, uploaded_file, clicked, extracted_text,
                   ocr_response>>

Sidebar ==
    /\ pc = "sidebar"
    /\ ui' = ui \o <<El("sidebar", "How to Use")>>
    /\ pc' = "idle"
    /\ UNCHANGED <<secrets, uploaded_file, clicked, extracted_text,
                   ocr_response, api_response, result, response, pdf_output,
                   requests_log>>

---------------------------------------------------------------------------
(* The user: every interaction with a widget reruns the script *)

Shown(kind) == \E i \in 1..Len(ui) : ui[i][1] = kind

\* the run is over: it reached the end, st.stop() or an uncaught exception
Ended == pc \in {"idle", "stopped", "raised"}

StartRun(file, click) ==
    /\ uploaded_file' = file
    /\ clicked' = click
    /\ pc' = "start"
    /\ extracted_text' = Unset
    /\ ocr_response' = NoResponse
    /\ api_response' = NoResponse
    /\ result' = Unset
    /\ response' = Unset
    /\ pdf_output' = Unset
    /\ ui' = <<>>
    /\ requests_log' = <<>>
    /\ UNCHANGED secrets

UploadFile(d) ==
    /\ Ended
    /\ Shown("file_uploader")
    /\ StartRun(d, FALSE)

RemoveFile ==
    /\ Ended
    /\ Shown("file_uploader")
    /\ uploaded_file.present
    /\ StartRun(NoFile, FALSE)

ClickGenerate ==
    /\ Ended
    /\ Shown("button")
    /\ StartRun(uploaded_file, TRUE)

Rerun ==
    /\ Ended
    /\ StartRun(uploaded_file, FALSE)

Next ==
    \/ Startup
    \/ UploadSection
    \/ GenerateHandler
    \/ Sidebar
    \/ \E d \in Documents : UploadFile(d)
    \/ RemoveFile
    \/ ClickGenerate
    \/ Rerun

Spec == Init /\ [][Next]_vars

---------------------------------------------------------------------------
(* convert_dict_to_markdown on its own: every input mapping, one call *)

Pieces == {<<"x">>, <<" ">>, BulletDelim, <<"U+00E2">>, <<"U+2014">>}

RECURSIVE PieceStrings(_)
\* the strings made of at most n pieces
PieceStrings(n) ==
    IF n = 0 THEN {<<>>}
    ELSE LET shorter == PieceStrings(n - 1)
         IN  shorter \cup {s \o p : s \in shorter, p \in Pieces}

FmtNocs == {<<>>, << <<"1">> >>, << <<" ", "1", " ">>, <<" ">>, <<"2">> >>}

FmtValue(k, q, n) ==
    IF k = "questionnaire" THEN q
    ELSE IF k = "noc_codes" THEN n
    ELSE SampleValue(k)

FmtInputs ==
    {[k \in {"questionnaire"} \cup J |-> FmtValue(k, q, <<>>)] :
        q \in PieceStrings(MaxPieces), J \in {{}, RoadmapKeys}}
      \cup
    {[k \in K |-> FmtValue(k, SampleValue("questionnaire"), n)] :
        K \in SUBSET RoadmapKeys, n \in FmtNocs}

FmtInit ==
    /\ secrets = {"RAPIDAPI_KEY"}
    /\ uploaded_file = NoFile
    /\ clicked = FALSE
    /\ pc = "format"
    /\ extracted_text = Unset
    /\ ocr_response = NoResponse
    /\ api_response = NoResponse
    /\ result \in {Dict(d) : d \in FmtInputs}
    /\ response = Unset
    /\ pdf_output = Unset
    /\ ui = <<>>
    /\ requests_log = <<>>

FmtConvert ==
    /\ pc = "format"
    /\ response' = Str(convert_dict_to_markdown(result.v))
    /\ pc' = "formatted"
    /\ UNCHANGED <<secrets, uploaded_file, clicked, extracted_text,
                   ocr_response, api_response, result, pdf_output, ui,
                   requests_log>>

FmtNext == FmtConvert

SpecFmt == FmtInit /\ [][FmtNext]_vars

---------------------------------------------------------------------------
(* Properties *)

\* how the OCR request ended, as extract_text_from_pdf distinguishes it
OcrClass(ocr) ==
    IF ocr.raises THEN "exception"
    ELSE IF ocr.status # 200 THEN "non200"
    ELSE IF ocr.json_ok /\ Get(ocr.body, "text", Str(<<>>)).kind = "str"
    THEN "ok" ELSE "exception"

\* extract_text_from_pdf was called in this run and got its answer
Extracted == ocr_response # NoResponse
\* ... and fell back to the local extractor
FellBack == Extracted /\ OcrClass(ocr_response) # "ok"
\* call_visa_roadmap_api was called in this run and got its answer
Called == api_response # NoResponse

LocalText == Concat(uploaded_file.pages)

ButtonAt == CHOOSE i \in 1..Len(ui) : ui[i][1] = "button"
\* the page from the Generate button on
HandlerUi ==
    IF Shown("button") THEN SubSeq(ui, ButtonAt + 1, Len(ui)) ELSE <<>>
IsError(e) == e[1] = "error"
IsRoadmapRequest(r) == r.url = "roadmap"

\* the elements of the block under `if result:`
IsResultElement(e) ==
    e[1] \in {"subheader", "expander", "markdown", "download_button"}

Rendered ==
    \/ \E i \in 1..Len(HandlerUi) : IsResultElement(HandlerUi[i])
    \/ response.kind # "unset"
    \/ pdf_output.kind # "unset"

\* C1: whenever extraction falls back to the local extractor (a non-200 OCR
\* answer, or an exception in the OCR request or in parsing its answer), a
\* warning is on the page.
C1_FallbackWarns == FellBack => Shown("warning")

\* C2: extraction never raises: it returns a string, which on every OCR
\* outcome but a 200 with a text is the local extractor's result: the
\* single-line text of the pages, or the empty string with an error on the
\* page when PyPDF2 fails.
C2_ExtractionNeverRaises ==
    Extracted =>
        /\ extracted_text.kind = "str"
        /\ FellBack =>
            IF uploaded_file.parse_ok
            THEN extracted_text.v = Strip(SingleLine(LocalText))
            ELSE /\ extracted_text.v = <<>>
                 /\ \E i \in 1..Len(ui) :
                        ui[i] = El("error", "Error in text extraction")

C2_Witness ==
    /\ pc = "generate"
    /\ ocr_response.raises
    /\ ~uploaded_file.parse_ok
    /\ extracted_text.kind = "str"
    /\ extracted_text.v = <<>>
    /\ Shown("error")

\* C3: call_visa_roadmap_api posts once; a 200 with a JSON body returns the
\* body and reports nothing; a 404 reports "data not found", any other
\* status the status code, an exception an error; and each of these reports
\* exactly one error and returns None.
C3_RoadmapOutcomes ==
    Called =>
        LET a == api_response
            errs == SelectSeq(HandlerUi, IsError)
        IN  /\ Len(SelectSeq(requests_log, IsRoadmapRequest)) = 1
            /\ IF ~a.raises /\ a.status = 200 /\ a.json_ok
               THEN /\ result.kind = "dict"
                    /\ result.v = a.body
                    /\ errs = <<>>
               ELSE /\ result.kind = "None"
                    /\ Len(errs) = 1
                    /\ (~a.raises /\ a.status = 404) =>
                         errs[1] = <<"error", "API Error: Data Not Found", 404>>
                    /\ (~a.raises /\ a.status \notin {200, 404}) =>
                         errs[1] = <<"error", "API Error", a.status>>

C3_Witness ==
    /\ Called
    /\ api_response.status = 404
    /\ result.kind = "None"
    /\ pc = "idle"

\* C4: when call_visa_roadmap_api returns None the handler renders nothing
\* (no panel, no Markdown report, no PDF, no download button), and whatever
\* it renders, it renders after a 200.
C4_FailureIsTerminal ==
    /\ (Called /\ result.kind = "None") => ~Rendered
    /\ Rendered => (~api_response.raises /\ api_response.status = 200)

C4_Witness ==
    /\ Called
    /\ api_response.status = 500
    /\ result.kind = "None"
    /\ ~Rendered
    /\ pc = "idle"

\* C5: after a 200 whose JSON object holds any subset of the five keys, the
\* handler ends without an exception, with the Markdown report made and the
\* download button on the page.
C5_MissingFieldsTolerated ==
    (/\ Called
     /\ ~api_response.raises
     /\ api_response.status = 200
     /\ api_response.json_ok)
        => /\ pc # "raised"
           /\ response.kind = "str"
           /\ Shown("download_button")

\* C6: without the RAPIDAPI_KEY secret every run ends at the startup check,
\* with the configuration error as its last element: no file uploader is
\* shown, no file is held, no request is issued.
C6_MissingKeyHalts ==
    "RAPIDAPI_KEY" \notin secrets =>
        /\ pc \in {"start", "stopped"}
        /\ ~Shown("file_uploader")
        /\ ~uploaded_file.present
        /\ requests_log = <<>>
        /\ pc = "stopped" => (ui # <<>> /\ IsError(ui[Len(ui)]))

C6_Witness ==
    /\ "RAPIDAPI_KEY" \notin secrets
    /\ pc = "stopped"
    /\ Shown("error")

\* C7: a roadmap request of a run follows that run's OCR request, with a
\* file uploaded, extraction returned and Generate pressed; its payload is
\* the questionnaire field alone, holding the extracted text; with the OCR
\* unavailable and pages reading "A B  C" that text is "A B C".
C7_RoadmapPayload ==
    \A i \in 1..Len(requests_log) :
        IsRoadmapRequest(requests_log[i]) =>
            /\ uploaded_file.present
            /\ clicked
            /\ \E j \in 1..(i - 1) : requests_log[j].url = "ocr"
            /\ extracted_text.kind = "str"
            /\ DOMAIN requests_log[i].payload = {"questionnaire"}
            /\ requests_log[i].payload.questionnaire = extracted_text.v
            /\ (FellBack /\ uploaded_file.parse_ok /\ LocalText = ScenarioText)
                 => requests_log[i].payload.questionnaire = ScenarioLine

C7_Witness ==
    /\ pc = "idle"
    /\ ocr_response.raises
    /\ Shown("warning")
    /\ LocalText = ScenarioText
    /\ \E i \in 1..Len(requests_log) :
          /\ IsRoadmapRequest(requests_log[i])
          /\ requests_log[i].payload.questionnaire = ScenarioLine

IsHeading(tok) == tok \in {Title, H1, H2, H3, H4, H5}
IsItemPrefix(tok) == tok = ItemPrefix
PosOf(tok) == CHOOSE i \in 1..Len(response.v) : response.v[i] = tok
\* the report between two of its headings
Between(h, k) == SubSeq(response.v, PosOf(h) + 1, PosOf(k) - 1)

\* C8: the report starts with the title and holds the five headings once
\* each, in their order, whatever fields are missing; the NOC Codes section
\* holds one list item per entry of noc_codes, none when it is empty.
C8_FiveSections ==
    pc = "formatted" =>
        /\ SelectSeq(response.v, IsHeading) = <<Title, H1, H2, H3, H4, H5>>
        /\ response.v[1] = Title
        /\ Len(SelectSeq(Between(H3, H4), IsItemPrefix))
              = Len(Get(result.v, "noc_codes", <<>>))
        /\ Get(result.v, "noc_codes", <<>>) = <<>>
              => Between(H3, H4) = <<"\n", "\n">>

C8_Witness ==
    /\ pc = "formatted"
    /\ "noc_codes" \in DOMAIN result.v
    /\ result.v.noc_codes = <<>>
    /\ "roadmap" \notin DOMAIN result.v
    /\ Between(H3, H4) = <<"\n", "\n">>

NonBlank(f) == \E i \in 1..Len(f) : f[i] \notin Whitespace
Contains(f, d) ==
    \E i \in 1..(Len(f) - Len(d) + 1) : SubSeq(f, i, i + Len(d) - 1) = d
\* t is f without the whitespace around it
IsTrimOf(t, f) ==
    /\ t # <<>>
    /\ t[1] \notin Whitespace
    /\ t[Len(t)] \notin Whitespace
    /\ \E a \in 0..(Len(f) - Len(t)) :
          /\ SubSeq(f, a + 1, a + Len(t)) = t
          /\ \A i \in 1..Len(f) :
                (i <= a \/ i > a + Len(t)) => f[i] \in Whitespace

QuestionnaireOf == Get(result.v, "questionnaire", <<>>)
Fragments == SplitOn(QuestionnaireOf, BulletDelim)
\* the list items of the Questionnaire section, each up to its line break
\* and the blank line after it
EmittedItems == Tail(SplitOn(Between(H1, H2), <<ItemPrefix>>))

\* C9: the questionnaire is cut at the bullet delimiter; the Questionnaire
\* section holds one list item per fragment that is not blank, in order,
\* each the fragment without the whitespace around it.
C9_QuestionnaireItems ==
    pc = "formatted" =>
        LET kept == SelectSeq(Fragments, NonBlank)
        IN  /\ Join(Fragments, BulletDelim) = QuestionnaireOf
            /\ \A i \in 1..Len(Fragments) :
                  ~Contains(Fragments[i], BulletDelim)
            /\ Len(EmittedItems) = Len(kept)
            /\ \A i \in 1..Len(kept) :
                  \E t \in {SubSeq(EmittedItems[i], 1, Len(EmittedItems[i]) - 2)} :
                      /\ EmittedItems[i] = t \o <<"\n", "\n">>
                      /\ IsTrimOf(t, kept[i])

C9_Witness ==
    /\ pc = "formatted"
    /\ Len(Fragments) = 3
    /\ Len(EmittedItems) = 3
    /\ Fragments[1] = <<" ", "x">>
    /\ EmittedItems[1] = <<"x", "\n", "\n">>

Normalized(s) ==
    /\ \A i \in 1..Len(s) : s[i] \notin {"\n", "\t"}
    /\ \A i \in 1..(Len(s) - 1) : ~(s[i] = " " /\ s[i + 1] = " ")
    /\ s # <<>> => (s[1] \notin Whitespace /\ s[Len(s)] \notin Whitespace)

\* the text extract_text_from_pdf normalized in this run
ExtractionInput ==
    IF FellBack
    THEN (IF uploaded_file.parse_ok THEN LocalText ELSE <<>>)
    ELSE Get(ocr_response.body, "text", Str(<<>>)).v

\* C10: the extracted text has no newline or tab, no two consecutive
\* spaces and no whitespace at its ends, on the OCR path and on the
\* fallback path; it is empty for an empty input; normalizing it again
\* leaves it as it is.
C10_ExtractedTextNormalized ==
    extracted_text.kind = "str" =>
        /\ Normalized(extracted_text.v)
        /\ ExtractionInput = <<>> => extracted_text.v = <<>>
        /\ SingleLine(extracted_text.v) = extracted_text.v
        /\ Strip(SingleLine(extracted_text.v)) = extracted_text.v

C10_Witness ==
    /\ extracted_text.kind = "str"
    /\ ~FellBack
    /\ ExtractionInput = <<"\t", "A", " ", "\n", "B", "\n">>
    /\ extracted_text.v = <<"A", " ", "B">>

=============================================================================
